---- MODULE Spec2Model ----
(***************************************************************************)
(* Model of lpkgm: the package dependency graph (lpkgm/dependencies.py),   *)
(* the protection rules (lpkgm/protection.py) and the install / removal    *)
(* workflow (lpkgm/lpkgm.py).                                              *)
(*                                                                         *)
(* A graph node is a pair <<name, version>>; an edge <<u, v>> means        *)
(* "u depends on (needs) v".                                               *)
(***************************************************************************)
EXTENDS Integers, Sequences, FiniteSets, TLC

(* ---- bounds of the model ---- *)

\* at most this many nodes are kept in the graph / registry at once
MaxNodes == 3

\* at most this many edges are kept in the graph at once
MaxEdges == 3

\* depth at which the interpreter gives up a recursion (RecursionError)
RecursionLimit == 6

(* ---- the universe of packages ---- *)

Names == {"xz", "root"}

\* len(name) for the names of the model
NameLen(n) == IF n = "xz" THEN 2 ELSE 4

Versions == {"1", "2"}

Pkgs == Names \X Versions

VARIABLES
    nodes,      \* PkgGraph.g : the nodes
    edges,      \* PkgGraph.g : the edges, <<u, v>> = u depends on v
    dirty,      \* PkgGraph._dirty
    manifests,  \* registry: installed package |-> its manifest
    files,      \* the packages whose filesystem entries are on disk
    cache,      \* the cache file of the graph
    last        \* the last call: its name, arguments and outcome

vars == <<nodes, edges, dirty, manifests, files, cache, last>>

\* what lives outside the PkgGraph object: manifest files, installed files
\* and the cache file
registry == <<manifests, files, cache>>

(* ---- graph helpers (networkx) ---- *)

\* targets of the out-edges of n: G.out_edges(n)
depends_on(E, n) == {e[2] : e \in {x \in E : x[1] = n}}

\* sources of the in-edges of n: G.in_edges(n)
dependency_of(E, n) == {e[1] : e \in {x \in E : x[2] = n}}

\* G.subgraph(S): the edges induced on S
subgraph(E, S) == {e \in E : e[1] \in S /\ e[2] \in S}

\* nx.weakly_connected_components: the component of the nodes in C,
\* grown along edges taken in both directions until nothing is added
RECURSIVE GrowComponent(_, _)
GrowComponent(E, C) ==
    LET C2 == C \cup UNION {depends_on(E, n) \cup dependency_of(E, n) : n \in C}
    IN  IF C2 = C THEN C ELSE GrowComponent(E, C2)

\* PkgGraph.isolated_subgraphs: the node sets of the weakly connected
\* components
isolated_subgraphs_whole(N, E) == {N} \ {{}}

isolated_subgraphs(N, E) == {GrowComponent(E, {n}) : n \in N}

\* nx.descendants(G, source): breadth-first from source along out-edges,
\* the source itself is not part of the result
RECURSIVE BfsReach(_, _, _)
BfsReach(E, seen, frontier) ==
    LET nxt == UNION {depends_on(E, n) : n \in frontier} \ seen
    IN  IF nxt = {} THEN seen ELSE BfsReach(E, seen \cup nxt, nxt)

descendants(E, source) == BfsReach(E, {source}, {source}) \ {source}

\* the set of the elements of a list
SeqToSet(q) == {q[i] : i \in 1..Len(q)}

\* nx.dfs_postorder_nodes(G) on the graph (N, E).  The order in which the
\* roots and the neighbours are tried is the iteration order of a set /
\* of the adjacency dictionaries, which the caller does not control: every
\* order is possible.  st = [visited, out]; DfsVisit explores the
\* children of n that are not yet visited, then emits n; the result is
\* the set of the states the traversal can end in.

\* as DfsVisit, but n is emitted when it is entered (a pre-order)
RECURSIVE DfsVisitPreorder(_, _, _, _)
DfsVisitPreorder(N, E, n, st) ==
    LET st1  == IF n \in SeqToSet(st.out) THEN st
                ELSE [visited |-> st.visited, out |-> Append(st.out, n)]
        todo == (depends_on(E, n) \cap N) \ st1.visited
    IN  IF todo = {}
        THEN {st1}
        ELSE UNION { UNION { DfsVisitPreorder(N, E, n, st2) :
                        st2 \in DfsVisitPreorder(N, E, c,
                                   [visited |-> st1.visited \cup {c},
                                    out |-> st1.out]) } : c \in todo }

RECURSIVE DfsVisit(_, _, _, _)
DfsVisit(N, E, n, st) ==
    LET todo == (depends_on(E, n) \cap N) \ st.visited
    IN  IF todo = {}
        THEN {[visited |-> st.visited, out |-> Append(st.out, n)]}
        ELSE UNION { UNION { DfsVisit(N, E, n, st2) :
                        st2 \in DfsVisit(N, E, c,
                                   [visited |-> st.visited \cup {c},
                                    out |-> st.out]) } : c \in todo }

RECURSIVE DfsForest(_, _, _)
DfsForest(N, E, st) ==
    LET todo == N \ st.visited
    IN  IF todo = {}
        THEN {st.out}
        ELSE UNION { UNION { DfsForest(N, E, st2) :
                        st2 \in DfsVisit(N, E, r,
                                   [visited |-> st.visited \cup {r},
                                    out |-> st.out]) } : r \in todo }

dfs_postorder_nodes(N, E) == DfsForest(N, E, [visited |-> {}, out |-> <<>>])

(* ---- PkgGraph.sort_for_removal ---- *)

\* The while loop of sort_for_removal: the first component (in the
\* iteration order of the components, any order) that holds a node of pkgs
\* gives the next tier.  The result is the set of possible outcomes
\* [raised, tiers].

\* as SortLoop, but a tier is the post-order of the whole component
RECURSIVE SortLoopWholeComponent(_, _, _, _)
SortLoopWholeComponent(N, E, pkgs, tiers) ==
    IF pkgs = {}
    THEN {[raised |-> "none", tiers |-> tiers]}
    ELSE LET hits == {C \in isolated_subgraphs(N, E) : C \cap pkgs # {}}
         IN  IF hits = {}
             THEN {[raised |-> "RuntimeError", tiers |-> <<>>]}
             ELSE UNION { UNION { SortLoopWholeComponent(N, E, pkgs \ C,
                                                         Append(tiers, tier)) :
                             tier \in dfs_postorder_nodes(C, subgraph(E, C)) } :
                          C \in hits }

RECURSIVE SortLoop(_, _, _, _)
SortLoop(N, E, pkgs, tiers) ==
    IF pkgs = {}
    THEN {[raised |-> "none", tiers |-> tiers]}
    ELSE LET hits == {C \cap pkgs : C \in isolated_subgraphs(N, E)} \ {{}}
         IN  IF hits = {}
             THEN {[raised |-> "RuntimeError", tiers |-> <<>>]}
             ELSE UNION { UNION { SortLoop(N, E, pkgs \ tgt, Append(tiers, tier)) :
                             tier \in dfs_postorder_nodes(tgt, subgraph(E, tgt)) } :
                          tgt \in hits }

sort_for_removal(N, E, pkgs) == SortLoop(N, E, pkgs, <<>>)

(* ---- protection rules (lpkgm/protection.py) ---- *)

\* fnmatch(string, pattern) for the patterns of the model: "*" matches
\* every string, a pattern without wildcard matches itself only
fnmatch(str, pat) == pat = "*" \/ str = pat

\* KeepAll(label)
KeepAll(label) ==
    [type |-> "KeepAll", label |-> label, versionPattern |-> "*"]

\* KeepNone(label)
KeepNone(label) ==
    [type |-> "KeepNone", label |-> label, versionPattern |-> "*"]

\* KeepVersion(label, versionPattern)
KeepVersion(label, versionPattern) ==
    [type |-> "KeepVersion", label |-> label, versionPattern |-> versionPattern]

\* rule(pkgVersion): ProtectionRule.__call__ of the three classes
RuleCall(rule, pkgVersion) ==
    CASE rule.type = "KeepAll"     -> TRUE
      [] rule.type = "KeepNone"    -> FALSE
      [] rule.type = "KeepVersion" -> fnmatch(pkgVersion, rule.versionPattern)

\* the rule lists a package name is configured with
RuleLists ==
    { <<KeepAll("always")>>,
      <<KeepNone("never"), KeepVersion("keep1", "1")>> }

\* the rule sets (name |-> list of rules) given to the queries; a name may
\* have no entry
RuleSets == UNION {[D -> RuleLists] : D \in SUBSET Names}

\* protectionRules.get(pkgName, [])
RulesOf(protectionRules, pkgName) ==
    IF pkgName \in DOMAIN protectionRules THEN protectionRules[pkgName] ELSE <<>>

\* the labels of the rules of the list that are true for the version, in
\* the order of the list
RECURSIVE TrueLabels(_, _)
TrueLabels(rules, pkgVersion) ==
    IF rules = <<>> THEN <<>>
    ELSE (IF RuleCall(Head(rules), pkgVersion) THEN <<Head(rules).label>> ELSE <<>>)
         \o TrueLabels(Tail(rules), pkgVersion)

(* ---- PkgGraph: protection queries ---- *)

\* PkgGraph.get_protected_rules_by_pkg: node |-> the labels of its true
\* rules (sorted and unique in the code: a set), for the nodes that have
\* one
get_protected_rules_by_pkg(N, protectionRules) ==
    LET labels(n) == SeqToSet(TrueLabels(RulesOf(protectionRules, n[1]), n[2]))
    IN  [n \in {m \in N : labels(m) # {}} |-> labels(n)]

\* as get_protected_pkgs, but only the direct dependencies of a protected
\* node are added
get_protected_pkgs_direct_deps(N, E, protectionRules) ==
    LET protected1st == DOMAIN get_protected_rules_by_pkg(N, protectionRules)
    IN  protected1st \cup UNION {depends_on(E, p) : p \in protected1st}

\* PkgGraph.get_protected_pkgs
get_protected_pkgs(N, E, protectionRules) ==
    LET protected1st == DOMAIN get_protected_rules_by_pkg(N, protectionRules)
    IN  protected1st \cup UNION {descendants(E, p) : p \in protected1st}

\* as get_unprotected_pkgs, but only the directly protected nodes are
\* taken out
get_unprotected_pkgs_direct(N, E, protectionRules) ==
    N \ DOMAIN get_protected_rules_by_pkg(N, protectionRules)

\* PkgGraph.get_unprotected_pkgs
get_unprotected_pkgs(N, E, protectionRules) ==
    N \ get_protected_pkgs(N, E, protectionRules)

\* what a get_protecting_rules call yields when its recursion does not end
\* (the interpreter raises RecursionError)
RecursionError == <<"RecursionError">>

\* PkgGraph.get_protecting_rules at recursion depth `depth`.  The result
\* is the empty tuple or <<name, version, labels, sub-records>>; the list
\* of the sub-records is kept as a set (its order is the order of the
\* in-edges).
RECURSIVE ProtectingRulesKeepsEmpty(_, _, _, _, _)
ProtectingRulesKeepsEmpty(E, protectionRules, pkg, recursive, depth) ==
    IF depth > RecursionLimit THEN RecursionError
    ELSE
    LET protectedByRules == TrueLabels(RulesOf(protectionRules, pkg[1]), pkg[2])
        r0 == IF protectedByRules # <<>>
              THEN <<pkg[1], pkg[2], protectedByRules, {}>>
              ELSE <<>>
    IN  IF ~recursive THEN r0
        ELSE LET rr == {ProtectingRulesKeepsEmpty(E, protectionRules, d, TRUE,
                                                  depth + 1) :
                            d \in dependency_of(E, pkg)}
             IN  IF RecursionError \in rr THEN RecursionError
                 ELSE IF rr # {}
                      THEN <<pkg[1], pkg[2], protectedByRules, rr>>
                      ELSE r0

RECURSIVE ProtectingRules(_, _, _, _, _)
ProtectingRules(E, protectionRules, pkg, recursive, depth) ==
    IF depth > RecursionLimit THEN RecursionError
    ELSE
    LET protectedByRules == TrueLabels(RulesOf(protectionRules, pkg[1]), pkg[2])
        r0 == IF protectedByRules # <<>>
              THEN <<pkg[1], pkg[2], protectedByRules, {}>>
              ELSE <<>>
    IN  IF ~recursive THEN r0
        ELSE LET dp == {ProtectingRules(E, protectionRules, d, TRUE, depth + 1) :
                            d \in dependency_of(E, pkg)}
                 rr == dp \ {<<>>}
             IN  IF RecursionError \in dp THEN RecursionError
                 ELSE IF rr # {}
                      THEN <<pkg[1], pkg[2], protectedByRules, rr>>
                      ELSE r0

\* as get_protecting_rules, the dependents being followed whatever
\* `recursive` is
get_protecting_rules_always_recursive(E, protectionRules, pkg, recursive) ==
    ProtectingRules(E, protectionRules, pkg, TRUE, 1)

get_protecting_rules(E, protectionRules, pkg, recursive) ==
    ProtectingRules(E, protectionRules, pkg, recursive, 1)

(* ---- PkgGraph: construction, exit, the cache file ---- *)

\* the cache file deps.nx.gpickle: absent, or the pickled graph
NoCache == [exists |-> FALSE, nodes |-> {}, edges |-> {}]

Pickled(N, E) == [exists |-> TRUE, nodes |-> N, edges |-> E]

\* PkgGraph._build_dep_graph: a node for every manifest, an edge for every
\* dependency of a manifest (add_edge adds the nodes it names)
build_dep_graph(M) ==
    LET deps == {e \in Pkgs \X Pkgs : /\ e[1] \in DOMAIN M
                                        /\ e[2] \in M[e[1]].dependencies}
    IN  [nodes |-> DOMAIN M \cup {e[2] : e \in deps}, edges |-> deps]

\* PkgGraph.__init__(forceRebuild): the cached graph is read when the file
\* exists and no rebuild is forced, else the graph is built from the
\* manifests and is dirty
PkgGraph_init(forceRebuild) ==
    /\ IF cache.exists /\ ~forceRebuild
       THEN /\ nodes' = cache.nodes
            /\ edges' = cache.edges
            /\ dirty' = FALSE
            /\ last' = [op |-> "__init__", raised |-> "none", rebuilt |-> FALSE]
       ELSE /\ nodes' = build_dep_graph(manifests).nodes
            /\ edges' = build_dep_graph(manifests).edges
            /\ dirty' = TRUE
            /\ last' = [op |-> "__init__", raised |-> "none", rebuilt |-> TRUE]
    /\ UNCHANGED registry

\* PkgGraph.__exit__: save() when dirty; save() writes the file and leaves
\* the flag as it is
PkgGraph_exit ==
    /\ IF dirty
       THEN /\ cache' = Pickled(nodes, edges)
            /\ last' = [op |-> "__exit__", raised |-> "none", saved |-> TRUE]
       ELSE /\ cache' = cache
            /\ last' = [op |-> "__exit__", raised |-> "none", saved |-> FALSE]
    /\ UNCHANGED <<nodes, edges, dirty, manifests, files>>

(* ---- the calls: PkgGraph mutators ---- *)

Called(op) == [op |-> op, raised |-> "none"]

Raised(op, err) == [op |-> op, raised |-> err]

\* PkgGraph.add(pkg1, pkg2)
add(pkg1, pkg2) ==
    /\ Cardinality(nodes \cup {pkg1, pkg2}) <= MaxNodes
    /\ Cardinality(edges \cup {<<pkg1, pkg2>>}) <= MaxEdges
    /\ nodes' = nodes \cup {pkg1, pkg2}
    /\ edges' = edges \cup {<<pkg1, pkg2>>}
    /\ dirty' = TRUE
    /\ last' = Called("add")
    /\ UNCHANGED registry

\* as add_pkg, the dirty flag being left as it is
add_pkg_keeps_flag(pkg) ==
    /\ Cardinality(nodes \cup {pkg}) <= MaxNodes
    /\ nodes' = nodes \cup {pkg}
    /\ last' = Called("add_pkg")
    /\ UNCHANGED <<edges, dirty, registry>>

\* PkgGraph.add_pkg(pkgName, pkgVer)
add_pkg(pkg) ==
    /\ Cardinality(nodes \cup {pkg}) <= MaxNodes
    /\ nodes' = nodes \cup {pkg}
    /\ dirty' = TRUE
    /\ last' = Called("add_pkg")
    /\ UNCHANGED <<edges, registry>>

\* the outcome of remove(pkg1, pkg2)
RemoveCall(pkg1, pkg2, raised) ==
    [op |-> "remove", raised |-> raised, pkg1 |-> pkg1, pkg2 |-> pkg2]

\* as remove, a missing edge being passed over as remove_edges_from does
remove_ignores_missing(pkg1, pkg2) ==
    /\ edges' = edges \ {<<pkg1, pkg2>>}
    /\ dirty' = TRUE
    /\ last' = RemoveCall(pkg1, pkg2, "none")
    /\ UNCHANGED <<nodes, registry>>

\* PkgGraph.remove(pkg1, pkg2): remove_edge raises on a missing edge, the
\* dirty flag is then not touched
remove(pkg1, pkg2) ==
    /\ IF <<pkg1, pkg2>> \in edges
       THEN /\ edges' = edges \ {<<pkg1, pkg2>>}
            /\ dirty' = TRUE
            /\ last' = RemoveCall(pkg1, pkg2, "none")
       ELSE /\ last' = RemoveCall(pkg1, pkg2, "NetworkXError")
            /\ UNCHANGED <<edges, dirty>>
    /\ UNCHANGED <<nodes, registry>>

\* PkgGraph.remove_mult(ebunch): remove_edges_from ignores missing edges
remove_mult(ebunch) ==
    /\ edges' = edges \ ebunch
    /\ dirty' = TRUE
    /\ last' = Called("remove_mult")
    /\ UNCHANGED <<nodes, registry>>

\* as remove_pkg, the edges of the node being left in the graph
remove_pkg_keeps_edges(pkg) ==
    /\ IF pkg \in nodes
       THEN /\ nodes' = nodes \ {pkg}
            /\ dirty' = TRUE
            /\ last' = Called("remove_pkg")
            /\ UNCHANGED edges
       ELSE /\ last' = Raised("remove_pkg", "NetworkXError")
            /\ UNCHANGED <<nodes, edges, dirty>>
    /\ UNCHANGED registry

\* PkgGraph.remove_pkg(pkgName, pkgVer): remove_node drops the node with
\* the edges into and out of it, and raises on a missing node
remove_pkg(pkg) ==
    /\ IF pkg \in nodes
       THEN /\ nodes' = nodes \ {pkg}
            /\ edges' = {e \in edges : e[1] # pkg /\ e[2] # pkg}
            /\ dirty' = TRUE
            /\ last' = Called("remove_pkg")
       ELSE /\ last' = Raised("remove_pkg", "NetworkXError")
            /\ UNCHANGED <<nodes, edges, dirty>>
    /\ UNCHANGED registry

(* ---- the calls: PkgGraph queries ---- *)

\* PkgGraph.sort_for_removal(pkgs_)
call_sort_for_removal(pkgs) ==
    /\ \E r \in sort_for_removal(nodes, edges, pkgs) :
          last' = [op |-> "sort_for_removal", raised |-> r.raised,
                   pkgs |-> pkgs, tiers |-> r.tiers]
    /\ UNCHANGED <<nodes, edges, dirty, registry>>

\* PkgGraph.get_protected_pkgs(protectionRules)
call_get_protected_pkgs(protectionRules) ==
    /\ last' = [op |-> "get_protected_pkgs", raised |-> "none",
                rules |-> protectionRules,
                result |-> get_protected_pkgs(nodes, edges, protectionRules)]
    /\ UNCHANGED <<nodes, edges, dirty, registry>>

\* PkgGraph.get_unprotected_pkgs(protectionRules)
call_get_unprotected_pkgs(protectionRules) ==
    /\ last' = [op |-> "get_unprotected_pkgs", raised |-> "none",
                rules |-> protectionRules,
                result |-> get_unprotected_pkgs(nodes, edges, protectionRules)]
    /\ UNCHANGED <<nodes, edges, dirty, registry>>

\* PkgGraph.get_protecting_rules(pkgName, pkgVersion, protectionRules,
\* recursive)
call_get_protecting_rules(pkg, protectionRules, recursive) ==
    /\ LET r == get_protecting_rules(edges, protectionRules, pkg, recursive)
       IN  last' = [op |-> "get_protecting_rules",
                    raised |-> IF r = RecursionError THEN "RecursionError"
                               ELSE "none",
                    pkg |-> pkg, rules |-> protectionRules,
                    recursive |-> recursive,
                    result |-> IF r = RecursionError THEN <<>> ELSE r]
    /\ UNCHANGED <<nodes, edges, dirty, registry>>

\* the tiers one after the other: rmQueueSorted of uninstall_packages
RECURSIVE Flatten(_)
Flatten(tiers) ==
    IF tiers = <<>> THEN <<>> ELSE Head(tiers) \o Flatten(Tail(tiers))

(* ---- PkgGraph.get_matching_pkgs ---- *)

\* PkgGraph.get_matching_pkgs: the nodes whose name and version match the
\* patterns and for which no rule of their name is true
get_matching_pkgs_whatever_rules(N, pkgNamePat, pkgVerPat, protectionRules) ==
    {node \in N :
        /\ fnmatch(node[1], pkgNamePat)
        /\ (pkgVerPat = "" \/ fnmatch(node[2], pkgVerPat))}

get_matching_pkgs(N, pkgNamePat, pkgVerPat, protectionRules) ==
    {node \in N :
        /\ fnmatch(node[1], pkgNamePat)
        /\ (pkgVerPat = "" \/ fnmatch(node[2], pkgVerPat))
        /\ ~ \E i \in 1..Len(RulesOf(protectionRules, node[1])) :
                RuleCall(RulesOf(protectionRules, node[1])[i], node[2])}

\* PkgGraph.get_matching_pkgs(pkgNamePat, pkgVerPat, protectionRules)
call_get_matching_pkgs(pkgNamePat, pkgVerPat, protectionRules) ==
    /\ last' = [op |-> "get_matching_pkgs", raised |-> "none",
                namePat |-> pkgNamePat, verPat |-> pkgVerPat,
                rules |-> protectionRules,
                result |-> get_matching_pkgs(nodes, pkgNamePat, pkgVerPat,
                                             protectionRules)]
    /\ UNCHANGED <<nodes, edges, dirty, registry>>

(* ---- install (lpkgm.py) ---- *)

\* gSettings['packages'][name]['depends']: root needs xz and may use
\* another root, xz has no dependency
Depends(pkgName) ==
    IF pkgName = "root"
    THEN {[name |-> "xz", required |-> TRUE], [name |-> "root", required |-> FALSE]}
    ELSE {}

\* Installer.resolve_dependency: the dependency has to be installed.  The
\* installer is taken by its contract: install_package constructs it with
\* pkgDefs, which the revision of installer.py at hand does not accept.
resolve_dependency(M, dep) ==
    IF dep \in DOMAIN M THEN "none" ELSE "RuntimeError"

\* the outcome of a command: the value returned, or the exception raised
Returned(op, ret) == [op |-> op, raised |-> "none", ret |-> ret]

\* as install_package, only add_pkg being called, whatever the dependencies
install_package_node_only(pkg, use, parses, installerOk) ==
    LET op == "install_package"
        usedDeps == IF Depends(pkg[1]) # {}
                    THEN {u \in use : u[1] \in {d.name : d \in Depends(pkg[1])}}
                    ELSE {}
    IN
    /\ Cardinality(DOMAIN manifests \cup {pkg}) <= MaxNodes
    /\ Cardinality(edges \cup {<<pkg, u>> : u \in usedDeps}) <= MaxEdges
    /\ IF pkg \in DOMAIN manifests
       THEN /\ last' = Raised(op, "RuntimeError")
            /\ UNCHANGED <<nodes, edges, dirty, registry>>
       ELSE IF ~parses
       THEN /\ last' = Returned(op, FALSE)
            /\ UNCHANGED <<nodes, edges, dirty, registry>>
       ELSE IF \E u \in usedDeps : resolve_dependency(manifests, u) # "none"
       THEN /\ last' = Raised(op, "RuntimeError")
            /\ UNCHANGED <<nodes, edges, dirty, registry>>
       ELSE IF \E d \in Depends(pkg[1]) :
                  d.required /\ d.name \notin {u[1] : u \in usedDeps}
       THEN /\ last' = Raised(op, "RuntimeError")
            /\ UNCHANGED <<nodes, edges, dirty, registry>>
       ELSE IF ~installerOk
       THEN /\ last' = Returned(op, FALSE)
            /\ UNCHANGED <<nodes, edges, dirty, registry>>
       ELSE /\ manifests' = [p \in DOMAIN manifests \cup {pkg} |->
                               IF p = pkg THEN [dependencies |-> usedDeps]
                               ELSE manifests[p]]
            /\ files' = files \cup {pkg}
            /\ nodes' = nodes \cup {pkg}
            /\ edges' = edges
            /\ dirty' = TRUE
            /\ last' = Returned(op, TRUE)
            /\ UNCHANGED cache

\* install_package(pkgName, pkgVerStr, pkgSettings, use, depGraph):
\* parses = some version-regex matches, installerOk = the installation
\* stages succeed
install_package(pkg, use, parses, installerOk) ==
    LET op == "install_package"
        usedDeps == IF Depends(pkg[1]) # {}
                    THEN {u \in use : u[1] \in {d.name : d \in Depends(pkg[1])}}
                    ELSE {}
    IN
    /\ Cardinality(DOMAIN manifests \cup {pkg}) <= MaxNodes
    /\ Cardinality(edges \cup {<<pkg, u>> : u \in usedDeps}) <= MaxEdges
    /\ IF pkg \in DOMAIN manifests
       THEN /\ last' = Raised(op, "RuntimeError")
            /\ UNCHANGED <<nodes, edges, dirty, registry>>
       ELSE IF ~parses
       THEN /\ last' = Returned(op, FALSE)
            /\ UNCHANGED <<nodes, edges, dirty, registry>>
       ELSE IF \E u \in usedDeps : resolve_dependency(manifests, u) # "none"
       THEN /\ last' = Raised(op, "RuntimeError")
            /\ UNCHANGED <<nodes, edges, dirty, registry>>
       ELSE IF \E d \in Depends(pkg[1]) :
                  d.required /\ d.name \notin {u[1] : u \in usedDeps}
       THEN /\ last' = Raised(op, "RuntimeError")
            /\ UNCHANGED <<nodes, edges, dirty, registry>>
       ELSE IF ~installerOk
       THEN /\ last' = Returned(op, FALSE)
            /\ UNCHANGED <<nodes, edges, dirty, registry>>
       ELSE /\ manifests' = [p \in DOMAIN manifests \cup {pkg} |->
                               IF p = pkg THEN [dependencies |-> usedDeps]
                               ELSE manifests[p]]
            /\ files' = files \cup {pkg}
            /\ nodes' = nodes \cup {pkg} \cup usedDeps
            /\ edges' = edges \cup {<<pkg, u>> : u \in usedDeps}
            /\ dirty' = TRUE
            /\ last' = Returned(op, TRUE)
            /\ UNCHANGED cache

(* ---- removal (lpkgm.py) ---- *)

\* the names that ask for the removal of everything unprotected
GcTokens == {"@unprotected", "@gc", "@orphaned", "@orphans"}

\* the keys of a manifest: pkgInfo of install_package
ManifestKeys ==
    {"package", "version", "installedAt", "fsEntries", "stats", "dependencies"}

\* unpacking a collection of n items into k names
Unpack(n, k) == IF n = k THEN "none" ELSE "ValueError"

\* protecting_rules_report(items) called with one record
\* (name, version, labels, sub-records): the loop unpacks each ITEM of the
\* record into four names.  The first item is the name, a string: its
\* characters are unpacked, and the fourth of them, a string of one
\* character, is reported recursively and unpacked in turn.
protecting_rules_report(items) ==
    IF Unpack(NameLen(items[1]), 4) # "none"
    THEN Unpack(NameLen(items[1]), 4)
    ELSE Unpack(1, 4)

\* the test "protectedBy and (protectedBy[0][2] or protectedBy[0][3])":
\* protectedBy[0] is the package name, so [0][2] is its third character;
\* a character is true, a name shorter than three characters raises
ProtectedByLabelsOnly(protectedBy) ==
    IF protectedBy = <<>> THEN "pass"
    ELSE IF protectedBy[3] # <<>> THEN "blocked" ELSE "pass"

ProtectedByTest(protectedBy) ==
    IF protectedBy = <<>> THEN "pass"
    ELSE IF NameLen(protectedBy[1]) < 3 THEN "IndexError"
    ELSE "blocked"

\* the -k/--keep entries of a request: "name/versionGlob", split at '/'
KeepEntry(name, ver) == [name |-> name, ver |-> ver]

\* as ManualKeep, the rule of a name without rules being put in a list
RECURSIVE ManualKeepAsList(_, _)
ManualKeepAsList(eff, keep) ==
    IF keep = <<>> THEN eff
    ELSE LET k == Head(keep)
             rule == KeepVersion("manual", k.ver)
             rules == [n \in DOMAIN eff.rules \cup {k.name} |->
                         IF n # k.name THEN eff.rules[n]
                         ELSE IF n \in DOMAIN eff.rules
                              THEN Append(eff.rules[n], rule)
                              ELSE <<rule>>]
         IN  ManualKeepAsList([eff EXCEPT !.rules = rules], Tail(keep))

\* the loop over keep of uninstall_packages: a name that has rules gets
\* the 'manual' KeepVersion appended to its list; a name that has none gets
\* the KeepVersion itself as its entry, not a list: `bare` holds these
\* names (rules[name] then tells what the object would answer).  A second
\* entry for such a name calls append on the KeepVersion.
RECURSIVE ManualKeep(_, _)
ManualKeep(eff, keep) ==
    IF keep = <<>> THEN eff
    ELSE LET k == Head(keep)
             rule == KeepVersion("manual", k.ver)
         IN  IF k.name \notin DOMAIN eff.rules
             THEN ManualKeep([eff EXCEPT
                     !.rules = [n \in DOMAIN eff.rules \cup {k.name} |->
                                  IF n = k.name THEN <<rule>> ELSE eff.rules[n]],
                     !.bare = eff.bare \cup {k.name}], Tail(keep))
             ELSE IF k.name \in eff.bare
             THEN [eff EXCEPT !.raised = "AttributeError"]
             ELSE ManualKeep([eff EXCEPT
                     !.rules = [eff.rules EXCEPT ![k.name] = Append(@, rule)]],
                     Tail(keep))

\* the packages that depend on pkg, directly or through others
dependents(E, pkg) == descendants({<<e[2], e[1]>> : e \in E}, pkg)

\* "for rule in protectionRules[name]" on an entry that is no list
NotIterable(bare, visited) == \E n \in visited : n[1] \in bare

\* the verification loop of uninstall_packages over rmQueueSorted, from
\* position i on: the first exception, or the blocks collected.
\* get_protecting_rules iterates the rules of the package and of the
\* packages depending on it.
RECURSIVE VerifyQueue(_, _, _, _, _, _, _)
VerifyQueue(E, M, protectionRules, bare, queue, i, blocks) ==
    IF i > Len(queue) THEN [raised |-> "none", blocks |-> blocks]
    ELSE
    LET pkg == queue[i]
        protectedBy == get_protecting_rules(E, protectionRules, pkg, TRUE)
        test == ProtectedByTest(protectedBy)
    IN  IF pkg \notin DOMAIN M
        THEN [raised |-> "RuntimeError", blocks |-> blocks]
        ELSE IF NotIterable(bare, {pkg} \cup dependents(E, pkg))
        THEN [raised |-> "TypeError", blocks |-> blocks]
        ELSE IF protectedBy = RecursionError
        THEN [raised |-> "RecursionError", blocks |-> blocks]
        ELSE IF test = "pass"
        THEN VerifyQueue(E, M, protectionRules, bare, queue, i + 1, blocks)
        ELSE IF test # "blocked"
        THEN [raised |-> test, blocks |-> blocks]
        ELSE IF protecting_rules_report(protectedBy) # "none"
        THEN [raised |-> protecting_rules_report(protectedBy), blocks |-> blocks]
        ELSE VerifyQueue(E, M, protectionRules, bare, queue, i + 1,
                         blocks \cup {pkg})

\* "for pkgName, pkgDatum in rmQueue": an element of rmQueue is a manifest,
\* iterating it gives its keys, which have to be exactly two; the second
\* key, a string, is then indexed with 'version'
DeletionLoop(queue) ==
    IF queue = <<>> THEN "none"
    ELSE IF Unpack(Cardinality(ManifestKeys), 2) # "none"
    THEN Unpack(Cardinality(ManifestKeys), 2)
    ELSE "TypeError"

\* the packages whose filesystem entries cannot be deleted in a run: none,
\* or one of them
FsFailures(queue) == {{}} \cup {{p} : p \in SeqToSet(queue)}

\* a removal request: the arguments of uninstall_packages.  keep is the
\* list of the -k entries (None and the empty list behave alike); confirm
\* tells how the confirmation goes.
Request(pkgNamePat, pkgVerStrPat, protectionRules, confirm, keep) ==
    [namePat |-> pkgNamePat, verPat |-> pkgVerStrPat, rules |-> protectionRules,
     confirm |-> confirm, keep |-> keep]

\* the outcome of uninstall_packages: the request, how far it got, what it
\* returned or raised, and the queue it had built
\* processed: the packages uninstall_package was called for, in order
\* fsFail: the packages whose filesystem entries could not be deleted
\* gc: the request asked for the unprotected packages; pats: the patterns
\* of a request with -k entries
Removal(req, phase, raised, msg, ret, queue, fsFail) ==
    [op |-> "uninstall_packages", phase |-> phase, raised |-> raised,
     msg |-> msg, ret |-> ret, queue |-> queue, fsFail |-> fsFail,
     processed |-> IF phase = "done" THEN queue ELSE <<>>,
     gc |-> req.namePat \in GcTokens,
     pats |-> IF req.keep = <<>> THEN <<>> ELSE <<req.namePat, req.verPat>>,
     rules |-> req.rules, confirm |-> req.confirm, keep |-> req.keep]

\* how the confirmation goes: -y given, or the answer typed at the
\* terminal, or no terminal at all
Confirmations == {"auto", "yes", "no", "notty"}

\* "if not autoConfirm": the answer 'no' and a stdin that is no terminal
\* make the request return False
RefusesOnlyNo(confirm) == confirm = "no"

Refuses(confirm) == confirm \in {"no", "notty"}

\* an empty selection: nothing orphaned is fine, nothing matching is not
EmptySelectionFails(gc) == "False"

EmptySelection(gc) == IF gc THEN "True" ELSE "False"

OtherDepends == "Other installed package depends on package(s) queued for removal."

\* uninstall_packages(pkgNamePat, pkgVerStrPat, pkgs, protectionRules,
\* autoConfirm, depGraph, keep)
uninstall_packages(pkgNamePat, pkgVerStrPat, protectionRules, confirm, keep) ==
    LET req == Request(pkgNamePat, pkgVerStrPat, protectionRules, confirm, keep)
        eff == ManualKeep([rules |-> protectionRules, bare |-> {},
                           raised |-> "none"], keep)
        gc == pkgNamePat \in GcTokens
        visited == IF gc THEN nodes
                   ELSE {n \in nodes : /\ fnmatch(n[1], pkgNamePat)
                                       /\ fnmatch(n[2], pkgVerStrPat)}
        rmQueueNameAndVer ==
            IF gc THEN get_unprotected_pkgs(nodes, edges, eff.rules)
            ELSE get_matching_pkgs(nodes, pkgNamePat, pkgVerStrPat, eff.rules)
        R(phase, raised, msg, ret, queue) ==
            Removal(req, phase, raised, msg, ret, queue, {})
    IN
    /\ IF eff.raised # "none"
       THEN last' = R("keep", eff.raised, "", "none", <<>>)
       ELSE IF NotIterable(eff.bare, visited)
       THEN last' = R("select", "TypeError", "", "none", <<>>)
       ELSE IF rmQueueNameAndVer = {}
       THEN last' = R("select", "none", "", EmptySelection(gc), <<>>)
       ELSE \E rmTiers \in sort_for_removal(nodes, edges, rmQueueNameAndVer) :
            LET rmQueueSorted == Flatten(rmTiers.tiers)
                v == VerifyQueue(edges, manifests, eff.rules, eff.bare,
                                 rmQueueSorted, 1, {})
            IN  IF rmTiers.raised # "none"
                THEN last' = R("sort", rmTiers.raised, "", "none", <<>>)
                ELSE IF v.raised # "none"
                THEN last' = R("verify", v.raised, "", "none", rmQueueSorted)
                ELSE IF v.blocks # {}
                THEN last' = R("verify", "RuntimeError", OtherDepends, "none",
                               rmQueueSorted)
                ELSE IF Refuses(confirm)
                THEN last' = R("confirm", "none", "", "False", rmQueueSorted)
                ELSE \E fsFail \in FsFailures(rmQueueSorted) :
                     IF DeletionLoop(rmQueueSorted) # "none"
                     THEN last' = Removal(req, "delete",
                                          DeletionLoop(rmQueueSorted), "", "none",
                                          rmQueueSorted, fsFail)
                     ELSE last' = Removal(req, "done", "none", "", "True",
                                          rmQueueSorted, fsFail)
    /\ UNCHANGED <<nodes, edges, dirty, registry>>

(* ---- the order of versions (lpkgm/ordered_versions.py) ---- *)

\* A version is a dict: attribute |-> value.  A value is kept as a
\* sequence, <<>> for None and <<v>> for the value v; an installation time
\* is a number.
Null == <<>>

\* dict.get(k, None)
Get(d, k) == IF k \in DOMAIN d THEN d[k] ELSE Null

\* convert_version_subnum(n)
convert_version_subnum(n) == IF n = Null THEN 0 ELSE n[1]

\* VersionsOrder.defaultAttrsOrder: six numbers, then the installation
\* time taken literally
defaultAttrsOrder ==
    <<"major", "minor", "patch", "patch1", "patch2", "patch3", "_installTime">>

\* VersionsOrder.defaultOrtogonalAttrs
defaultOrtogonalAttrs == <<"buildConf">>

\* canonic_version_tuple(pkgVer_, installTime) of an order built with
\* ortogonalBy: <<flavour, version>>.  flavourKeys is never an empty list,
\* so the flavour is always a tuple, the empty one without flavours.
canonic_version_tuple(ortogonalBy, pkgVer_, installTime) ==
    LET time     == IF "_installTime" \in DOMAIN pkgVer_
                    THEN pkgVer_["_installTime"] ELSE installTime
        ortoKeys == [i \in 1..Len(ortogonalBy) |-> Get(pkgVer_, ortogonalBy[i])]
        version  == [i \in 1..Len(defaultAttrsOrder) |->
                       IF defaultAttrsOrder[i] = "_installTime" THEN time
                       ELSE convert_version_subnum(Get(pkgVer_, defaultAttrsOrder[i]))]
    IN  <<ortoKeys, version>>

\* a < b for two tuples of numbers of one length (Python's comparison)
LexLess(a, b) ==
    \E i \in 1..Len(a) : a[i] < b[i] /\ \A j \in 1..(i - 1) : a[j] = b[j]

\* sorted(S) for a set of tuples of numbers
RECURSIVE sorted(_)
sorted(S) ==
    IF S = {} THEN <<>>
    ELSE LET m == CHOOSE x \in S : \A y \in S \ {x} : LexLess(x, y)
         IN  <<m>> \o sorted(S \ {m})

\* the numbers of S, ascending
RECURSIVE Ascending(_)
Ascending(S) ==
    IF S = {} THEN <<>>
    ELSE LET m == CHOOSE x \in S : \A y \in S : x <= y
         IN  <<m>> \o Ascending(S \ {m})

\* VersionsOrder.__call__(pkgVersionsAndDate) for a list of pairs
\* <<version, installTime>>: versionsByOrtogonalAttr[flavour][version tuple]
\* is assigned pair after pair, a later pair replacing an earlier one with
\* the same flavour and tuple; the flavours come out in the order of their
\* first pair, each with its tuples sorted.
VersionsOrder_call(ortogonalBy, pkgVersionsAndDate) ==
    LET I          == 1..Len(pkgVersionsAndDate)
        key(i)     == canonic_version_tuple(ortogonalBy, pkgVersionsAndDate[i][1],
                                            pkgVersionsAndDate[i][2])
        firsts     == Ascending({i \in I : \A j \in 1..(i - 1) : key(j)[1] # key(i)[1]})
        keysOf(f)  == sorted({key(i)[2] : i \in {j \in I : key(j)[1] = f}})
        stored(f, k) ==
            LET m == CHOOSE i \in I : /\ key(i) = <<f, k>>
                                      /\ \A j \in I : key(j) = <<f, k>> => j <= i
            IN  pkgVersionsAndDate[m]
        listOf(f)  == [q \in 1..Len(keysOf(f)) |-> <<keysOf(f)[q], stored(f, keysOf(f)[q])>>]
    IN  [p \in 1..Len(firsts) |-> <<key(firsts[p])[1], listOf(key(firsts[p])[1])>>]

\* the versions the order is applied to (after testVersions, with
\* installation times 1..4)
V_1_2_0_test == [major |-> <<1>>, minor |-> <<2>>, patch |-> Null,
                 commit |-> Null, buildConf |-> <<"test">>]

V_1_0_23 == [major |-> <<1>>, minor |-> Null, patch |-> <<23>>,
             commit |-> <<"deadbeef">>, buildConf |-> Null]

V_1_0_1 == [major |-> <<1>>, minor |-> <<0>>, patch |-> <<1>>,
            commit |-> <<"12ef32ea">>, buildConf |-> Null]

V_1_0_1_noConf == [major |-> <<1>>, minor |-> <<0>>, patch |-> <<1>>,
                   commit |-> <<"12ef32ea">>]

V_1_x_1 == [major |-> <<1>>, minor |-> Null, patch |-> <<1>>,
            commit |-> <<"0badc0de">>, buildConf |-> Null]

V_1_2 == [major |-> <<1>>, minor |-> <<2>>, commit |-> Null]

TestVersions ==
    { <<V_1_2_0_test, 1>>, <<V_1_0_23, 2>>, <<V_1_0_1, 3>>, <<V_1_0_1_noConf, 4>>,
      <<V_1_x_1, 3>>, <<V_1_2, 1>> }

\* the longest list given to the order
MaxVersions == 3

\* the lists of distinct entries of S, of length n at most
RECURSIVE ListsOf(_, _)
ListsOf(S, n) ==
    IF n = 0 THEN {<<>>}
    ELSE {<<>>} \cup {<<x>> \o q : x \in S, q \in ListsOf(S, n - 1)}

Distinct(q) == \A i \in 1..Len(q) : \A j \in 1..Len(q) : q[i] = q[j] => i = j

VersionLists == {q \in ListsOf(TestVersions, MaxVersions) : Distinct(q)}

\* order = VersionsOrder(ortogonalBy=...); list(order(pkgVersionsAndDate))
order_versions(ortogonalBy) ==
    /\ last.op = "versions"
    /\ last' = [op |-> "VersionsOrder", raised |-> "none",
                input |-> last.input, ortogonalBy |-> ortogonalBy,
                result |-> VersionsOrder_call(ortogonalBy, last.input)]
    /\ UNCHANGED <<nodes, edges, dirty, registry>>

(* ---- the rule keeping the latest versions (lpkgm/protection.py) ---- *)

\* the version dict install_package writes for a version string: the
\* groups of the version expression and fullVersion; an expression with
\* no named group leaves fullVersion alone
ParsedVersion(ver) ==
    [fullVersion |-> ver, major |-> <<IF ver = "1" THEN 1 ELSE 2>>]

PlainVersion(ver) == [fullVersion |-> ver]

\* installedAt of the manifests of the model
InstalledAt(pkg) == IF pkg[2] = "1" THEN 1 ELSE 2

\* a manifest with its version dict and installation time
Manifest(pkg, version) ==
    [dependencies |-> {}, version |-> version, installedAt |-> InstalledAt(pkg)]

\* the registries the rules are built over
Registries ==
    LET choice(p) == {<<>>, <<Manifest(p, ParsedVersion(p[2]))>>,
                            <<Manifest(p, PlainVersion(p[2]))>>}
    IN  UNION {{[p \in D |-> m[p][1]] : m \in {f \in [D -> UNION {choice(p) : p \in D}] :
                                                  \A p \in D : f[p] \in choice(p) \ {<<>>}}}
               : D \in {S \in SUBSET Pkgs : Cardinality(S) <= MaxNodes}}

\* the version dict with the key _installTime added
WithInstallTime(version, its) ==
    [k \in DOMAIN version \cup {"_installTime"} |->
        IF k = "_installTime" THEN its ELSE version[k]]

\* self._versionsCache of KeepLatestProtectionRule: version string |-> the
\* version dict of the manifest, with _installTime
VersionsCache(M, pkgName) ==
    [ver \in {p[2] : p \in {x \in DOMAIN M : x[1] = pkgName}} |->
        WithInstallTime(M[<<pkgName, ver>>].version, M[<<pkgName, ver>>].installedAt)]

\* "for pkgVer_, installTime in pkgVersionsAndDate" of
\* VersionsOrder.__call__ when an entry is a version dict, not a pair: the
\* keys of the dict are unpacked; two keys give two strings, and the copy
\* of a string has no keys()
UnpackVersionDict(version) ==
    IF Unpack(Cardinality(DOMAIN version), 2) # "none"
    THEN Unpack(Cardinality(DOMAIN version), 2)
    ELSE "AttributeError"

\* the rule object
KeepLatest(pkgName, label, versionsCache, limit, ortogonalBy, sortedBy) ==
    [type |-> "KeepLatest", label |-> label, pkgName |-> pkgName,
     versionsCache |-> versionsCache, limit |-> limit,
     ortogonalBy |-> ortogonalBy, sorted |-> sortedBy]

NoRule == [type |-> "none"]

\* KeepLatestProtectionRule.__init__: the outcomes the construction can
\* have.  packages(pkgName) yields every manifest of the registry, whatever
\* the name given; a manifest of another name raises.  The order is then
\* called with list(self._versionsCache.values()), a list of dicts, and
\* raises on the entry that comes first, which is left to the file system.
KeepLatestProtectionRule_init(M, pkgName, label, flavourFrom, latestLimit) ==
    LET versionsCache == VersionsCache(M, pkgName)
    IN  IF latestLimit = 0
        THEN {[raised |-> "AssertionError", rule |-> NoRule]}
        ELSE IF \E p \in DOMAIN M : p[1] # pkgName
        THEN {[raised |-> "RuntimeError", rule |-> NoRule]}
        ELSE IF DOMAIN versionsCache # {}
        THEN {[raised |-> UnpackVersionDict(versionsCache[ver]), rule |-> NoRule]
                 : ver \in DOMAIN versionsCache}
        ELSE {[raised |-> "none",
               rule |-> KeepLatest(pkgName, label, versionsCache, latestLimit,
                                   flavourFrom, <<>>)]}

\* the last n entries of a list: q[-n:]
LastN(q, n) ==
    IF n >= Len(q) THEN q ELSE SubSeq(q, Len(q) - n + 1, Len(q))

\* KeepLatestProtectionRule.__call__(pkgVersion)
KeepLatestProtectionRule_call(rule, pkgVersion) ==
    IF pkgVersion \notin DOMAIN rule.versionsCache
    THEN [raised |-> "KeyError", ret |-> FALSE]
    ELSE LET c  == canonic_version_tuple(rule.ortogonalBy,
                                         rule.versionsCache[pkgVersion], Null)
             at == {p \in 1..Len(rule.sorted) : rule.sorted[p][1] = c[1]}
         IN  IF at = {}
             THEN [raised |-> "KeyError", ret |-> FALSE]
             ELSE LET linVersion == rule.sorted[CHOOSE p \in at : TRUE][2]
                      kept == LastN(linVersion, rule.limit)
                  IN  [raised |-> "none",
                       ret |-> c[2] \in {kept[i][1] : i \in 1..Len(kept)}]

\* the limits a rule is configured with (0: latestLimit given as 0)
Limits == 0..2

\* rule = KeepLatestProtectionRule(pkgName, flavourFrom=..., latestLimit=...)
\* over the registry
construct_KeepLatest(pkgName, flavourFrom, latestLimit) ==
    /\ last.op = "registry"
    /\ \E o \in KeepLatestProtectionRule_init(manifests, pkgName, "latest",
                                              flavourFrom, latestLimit) :
          last' = [op |-> "KeepLatest", raised |-> o.raised, rule |-> o.rule,
                   pkgName |-> pkgName, flavourFrom |-> flavourFrom,
                   latestLimit |-> latestLimit]
    /\ UNCHANGED <<nodes, edges, dirty, registry>>

\* rule(pkgVersion) of the rule constructed
call_KeepLatest(pkgVersion) ==
    /\ last.op = "KeepLatest"
    /\ last.raised = "none"
    /\ LET o == KeepLatestProtectionRule_call(last.rule, pkgVersion)
       IN  last' = [op |-> "KeepLatest.__call__", raised |-> o.raised,
                    ret |-> o.ret, rule |-> last.rule, pkgVersion |-> pkgVersion]
    /\ UNCHANGED <<nodes, edges, dirty, registry>>

(* ---- building the rules from the settings (lpkgm/protection.py) ---- *)

\* A type name is kept as the sequence of its characters.
T_always   == <<"a", "l", "w", "a", "y", "s">>
T_keep     == <<"k", "e", "e", "p">>
T_system   == <<"s", "y", "s", "t", "e", "m">>
T_keepall  == <<"k", "e", "e", "p", "a", "l", "l">>
T_keep_all == <<"k", "e", "e", "p", "_", "a", "l", "l">>
T_keep_dash_all == <<"k", "e", "e", "p", "-", "a", "l", "l">>
T_never    == <<"n", "e", "v", "e", "r">>
T_none     == <<"n", "o", "n", "e">>
T_latest   == <<"l", "a", "t", "e", "s", "t">>

\* type names of the settings that are not written as the known ones
T_Keep     == <<"K", "e", "e", "p">>
T_test     == <<"t", "e", "s", "t">>
T_newest   == <<"n", "e", "w", "e", "s", "t">>

\* str.lower() for the characters of the model
LowerChar(c) == IF c = "K" THEN "k" ELSE c

lower(str) == [i \in 1..Len(str) |-> LowerChar(str[i])]

\* "s in t" for two strings: s is a substring of t
Substring(s, t) ==
    \E i \in 0..Len(t) : i + Len(s) <= Len(t) /\ SubSeq(t, i + 1, i + Len(s)) = s

\* the tuples of instantiate_protection_rule; ('latest') is no tuple but
\* the string itself
KeepAllTypes == {T_always, T_keep, T_system, T_keepall, T_keep_all, T_keep_dash_all}

KeepNoneTypes == {T_never, T_none}

\* a rule descriptor of the settings, with the pkgName build_protection_rules
\* adds
Descriptor(type, label) == [type |-> type, label |-> label]

\* instantiate_protection_rule(**kwargs): the outcomes it can have
instantiate_protection_rule(M, pkgName, kwargs) ==
    IF lower(kwargs.type) \in KeepAllTypes
    THEN {[raised |-> "none", rule |-> KeepAll(kwargs.label)]}
    ELSE IF lower(kwargs.type) \in KeepNoneTypes
    THEN {[raised |-> "none", rule |-> KeepNone(kwargs.label)]}
    ELSE IF Substring(lower(kwargs.type), T_latest)
    THEN KeepLatestProtectionRule_init(M, pkgName, kwargs.label,
                                       defaultOrtogonalAttrs, 1)
    ELSE {[raised |-> "KeyError", rule |-> NoRule]}

\* the inner loop of build_protection_rules: the rules of one package
RECURSIVE InstantiateAll(_, _, _)
InstantiateAll(M, pkgName, descriptions) ==
    IF descriptions = <<>> THEN {[raised |-> "none", rules |-> <<>>]}
    ELSE UNION {IF o.raised # "none"
                THEN {[raised |-> o.raised, rules |-> <<>>]}
                ELSE {[raised |-> r.raised, rules |-> <<o.rule>> \o r.rules]
                        : r \in InstantiateAll(M, pkgName, Tail(descriptions))}
                  : o \in instantiate_protection_rule(M, pkgName, Head(descriptions))}

\* a package definition of the settings, without and with protection rules
PkgDef == "depends" :> <<>>

PkgDefWithRules(descriptions) == PkgDef @@ ("protection-rules" :> descriptions)

\* protectionRules[pkgName] = pkgProtectionRules
WithRules(protectionRules, pkgName, rules) ==
    [n \in DOMAIN protectionRules \cup {pkgName} |->
        IF n = pkgName THEN rules ELSE protectionRules[n]]

NoRules == [n \in {} |-> <<>>]

\* build_protection_rules() over gSettings['packages'], a list of
\* <<name, definition>> in the order of the settings: the outcomes
RECURSIVE BuildRules(_, _, _)
BuildRules(M, packages, protectionRules) ==
    IF packages = <<>> THEN {[raised |-> "none", ret |-> protectionRules]}
    ELSE LET pkgName == Head(packages)[1]
             pkgDef  == Head(packages)[2]
         IN  IF "protection-rules" \notin DOMAIN pkgDef
             THEN BuildRules(M, Tail(packages), protectionRules)
             ELSE UNION {IF r.raised # "none"
                         THEN {[raised |-> r.raised, ret |-> NoRules]}
                         ELSE BuildRules(M, Tail(packages),
                                         WithRules(protectionRules, pkgName, r.rules))
                           : r \in InstantiateAll(M, pkgName, pkgDef["protection-rules"])}

build_protection_rules(M, packages) == BuildRules(M, packages, NoRules)

\* the type names and the rule lists of the settings of the model
TypeNames == {T_always, T_Keep, T_none, T_latest, T_test, T_newest}

\* the longest list of rules of a package definition
MaxRules == 2

Descriptions ==
    ListsOf({Descriptor(t, "r") : t \in TypeNames}, MaxRules)

PkgDefs == {PkgDef} \cup {PkgDefWithRules(d) : d \in Descriptions}

\* the packages of the settings
Settings == {<< <<"xz", x>>, <<"root", r>> >> : x \in PkgDefs, r \in PkgDefs}

\* protectionRules = build_protection_rules() of the command line, with
\* the settings given
call_build_protection_rules(packages) ==
    /\ last.op = "registry"
    /\ \E o \in build_protection_rules(manifests, packages) :
          last' = [op |-> "build_protection_rules", raised |-> o.raised,
                   ret |-> o.ret, packages |-> packages]
    /\ UNCHANGED <<nodes, edges, dirty, registry>>

(* ---- uninstall_package (lpkgm.py) ---- *)

\* the orders a list of the packages of S can have
Orderings(S) == {q \in ListsOf(S, Cardinality(S)) : Distinct(q) /\ Len(q) = Cardinality(S)}

\* "for dep in pkgData['dependencies']: depGraph.remove(pkg, dep)" from
\* position i on: the edges left, and whether remove raised (on the first
\* listed dependency whose edge is missing)
RECURSIVE RemoveDependencies(_, _, _, _)
RemoveDependencies(E, pkg, deps, i) ==
    IF i > Len(deps) THEN [edges |-> E, raised |-> FALSE]
    ELSE IF <<pkg, deps[i]>> \in E
    THEN RemoveDependencies(E \ {<<pkg, deps[i]>>}, pkg, deps, i + 1)
    ELSE [edges |-> E, raised |-> TRUE]

\* as UpdateGraph, the node being dropped whatever the loop did
UpdateGraphDropsNode(N, E, pkg, deps) ==
    LET loop == RemoveDependencies(E, pkg, deps, 1)
    IN  [nodes |-> N \ {pkg},
         edges |-> {e \in loop.edges : e[1] # pkg /\ e[2] # pkg},
         failed |-> loop.raised \/ pkg \notin N,
         touched |-> TRUE]

\* the try block of uninstall_package: the loop over the listed
\* dependencies, then remove_pkg; an exception of either ends the block and
\* is logged.  touched: some call got as far as setting the dirty flag.
UpdateGraph(N, E, pkg, deps) ==
    LET loop == RemoveDependencies(E, pkg, deps, 1)
    IN  IF loop.raised \/ pkg \notin N
        THEN [nodes |-> N, edges |-> loop.edges, failed |-> TRUE,
              touched |-> loop.edges # E]
        ELSE [nodes |-> N \ {pkg},
              edges |-> {e \in loop.edges : e[1] # pkg /\ e[2] # pkg},
              failed |-> FALSE, touched |-> TRUE]

\* uninstall_package(pkgName, pkgData, depGraph) for the manifest of an
\* installed package: fsOk = the filesystem entries can be deleted, deps =
\* the dependencies in the order the manifest lists them
uninstall_package(pkg, fsOk, deps) ==
    /\ pkg \in DOMAIN manifests
    /\ deps \in Orderings(manifests[pkg].dependencies)
    /\ IF ~fsOk
       THEN /\ last' = [op |-> "uninstall_package", raised |-> "none",
                        ret |-> FALSE, pkg |-> pkg, failed |-> FALSE,
                        removed |-> {}]
            /\ UNCHANGED <<nodes, edges, dirty, registry>>
       ELSE LET u == UpdateGraph(nodes, edges, pkg, deps)
            IN  /\ files' = files \ {pkg}
                /\ manifests' = [p \in DOMAIN manifests \ {pkg} |-> manifests[p]]
                /\ nodes' = u.nodes
                /\ edges' = u.edges
                /\ dirty' = (dirty \/ u.touched)
                /\ last' = [op |-> "uninstall_package", raised |-> "none",
                            ret |-> TRUE, pkg |-> pkg, failed |-> u.failed,
                            removed |-> edges \ u.edges]
                /\ UNCHANGED cache

(* ---- show, and the exit code (lpkgm.py, dependencies.py) ---- *)

\* show(sys.stdout, None, None, 'ascii', depGraph, protectionRules): the
\* table of the installed packages; with a non-empty rule set
\* get_protecting_rules(recursive=True) is called for every manifest
show(protectionRules) ==
    /\ IF /\ DOMAIN protectionRules # {}
          /\ \E p \in DOMAIN manifests :
                get_protecting_rules(edges, protectionRules, p, TRUE) = RecursionError
       THEN last' = [op |-> "show", raised |-> "RecursionError", ret |-> "none"]
       ELSE last' = [op |-> "show", raised |-> "none", ret |-> "True"]
    /\ UNCHANGED <<nodes, edges, dirty, registry>>

\* show_tree(outStream, pkgName, pkgVerStr, depGraph): write_network_text,
\* and no return statement
show_tree ==
    /\ last' = [op |-> "show_tree", raised |-> "none", ret |-> "None"]
    /\ UNCHANGED <<nodes, edges, dirty, registry>>

\* what lpkgm_run_from_cmd_args returns for the outcome l of the
\* procedure it ran: the value the procedure returned, False for an
\* exception
lpkgm_run_from_cmd_args(l) ==
    IF l.raised # "none" THEN "False"
    ELSE IF l.op = "install_package" THEN (IF l.ret THEN "True" ELSE "False")
    ELSE l.ret

\* main: sys.exit(0 if lpkgm_run_from_cmd_args(sys.argv) else 1)
main(l) == IF lpkgm_run_from_cmd_args(l) = "True" THEN 0 ELSE 1

(* ---- specifications ---- *)

\* PkgGraph() with no cache file and no manifest: an empty graph, to be
\* saved on exit
Init ==
    /\ nodes = {}
    /\ edges = {}
    /\ dirty = TRUE
    /\ manifests = <<>>
    /\ files = {}
    /\ cache = NoCache
    /\ last = Called("init")

Mutate ==
    \/ \E p1 \in Pkgs, p2 \in Pkgs : add(p1, p2)
    \/ \E p \in Pkgs : add_pkg(p)
    \/ \E p1 \in Pkgs, p2 \in Pkgs : remove(p1, p2)
    \/ \E eb \in SUBSET edges : remove_mult(eb)
    \/ \E p \in Pkgs : remove_pkg(p)

NextSort ==
    \/ Mutate
    \/ \E S \in SUBSET Pkgs : call_sort_for_removal(S)

SpecSort == Init /\ [][NextSort]_vars

\* the name and version patterns of the removal requests
RemovePatterns ==
    {<<"*", "*">>, <<"xz", "*">>, <<"root", "*">>, <<"xz", "1">>}

\* the removal requests without -k
RemoveCommand ==
    \E R \in RuleSets, confirm \in Confirmations :
       \/ uninstall_packages("@gc", "*", R, confirm, <<>>)
       \/ \E pat \in RemovePatterns :
             uninstall_packages(pat[1], pat[2], R, confirm, <<>>)

\* the -k lists of the requests: one entry, or two for the same name
KeepLists ==
    {<<KeepEntry("xz", "1")>>, <<KeepEntry("root", "*")>>,
     <<KeepEntry("xz", "1"), KeepEntry("xz", "2")>>}

\* the removal requests with -k
RemoveKeepCommand ==
    \E namePat \in {"@gc", "*", "xz"}, R \in RuleSets, keep \in KeepLists :
       uninstall_packages(namePat, "*", R, "auto", keep)

\* the longest --use list of an install command
MaxUse == 2

\* the install commands: a version that does not parse fails whatever is
\* to be used
InstallCommand ==
    \E pkg \in Pkgs :
       \/ install_package(pkg, {}, FALSE, TRUE)
       \/ \E use \in {U \in SUBSET Pkgs : Cardinality(U) <= MaxUse}, ok \in BOOLEAN :
             install_package(pkg, use, TRUE, ok)

\* the commands of lpkgm: install and remove
Next ==
    \/ InstallCommand
    \/ RemoveCommand

Spec == Init /\ [][Next]_vars

NextKeep ==
    \/ InstallCommand
    \/ RemoveKeepCommand

SpecKeep == Init /\ [][NextKeep]_vars

\* the packages of the sessions that are followed up to their exit
CachePkgs == {<<"xz", "1">>, <<"root", "1">>}

\* a session: mutators, installs and queries until the context exits, then
\* the next PkgGraph is constructed
NextCache ==
    \/ /\ last.op # "__exit__"
       /\ \/ \E p1 \in CachePkgs, p2 \in CachePkgs : add(p1, p2)
          \/ \E p \in CachePkgs : add_pkg(p)
          \/ \E p1 \in CachePkgs, p2 \in CachePkgs : remove(p1, p2)
          \/ \E eb \in SUBSET edges : remove_mult(eb)
          \/ \E p \in CachePkgs : remove_pkg(p)
          \/ \E p \in CachePkgs, use \in SUBSET CachePkgs :
                install_package(p, use, TRUE, TRUE)
          \/ \E S \in SUBSET CachePkgs : call_sort_for_removal(S)
          \/ PkgGraph_exit
    \/ /\ last.op = "__exit__"
       /\ \E forceRebuild \in BOOLEAN : PkgGraph_init(forceRebuild)

SpecCache == Init /\ [][NextCache]_vars

NextProt ==
    \/ Mutate
    \/ \E R \in RuleSets : call_get_protected_pkgs(R)
    \/ \E R \in RuleSets : call_get_unprotected_pkgs(R)

SpecProt == Init /\ [][NextProt]_vars

NextRules ==
    \/ Mutate
    \/ \E p \in Pkgs, R \in RuleSets, rec \in BOOLEAN :
          call_get_protecting_rules(p, R, rec)

SpecRules == Init /\ [][NextRules]_vars

\* the order of versions applied to the lists of versions: ortogonalBy is
\* left to its default or set to the empty list
InitOrder ==
    /\ nodes = {}
    /\ edges = {}
    /\ dirty = TRUE
    /\ manifests = <<>>
    /\ files = {}
    /\ cache = NoCache
    /\ \E q \in VersionLists : last = [op |-> "versions", raised |-> "none", input |-> q]

NextOrder ==
    \E ortogonalBy \in {defaultOrtogonalAttrs, <<>>} : order_versions(ortogonalBy)

SpecOrder == InitOrder /\ [][NextOrder]_vars

\* a registry of installed versions, a KeepLatest rule constructed over
\* it, and the rule called
InitLatest ==
    /\ manifests \in Registries
    /\ nodes = build_dep_graph(manifests).nodes
    /\ edges = build_dep_graph(manifests).edges
    /\ dirty = TRUE
    /\ files = DOMAIN manifests
    /\ cache = NoCache
    /\ last = [op |-> "registry", raised |-> "none"]

NextLatest ==
    \/ \E n \in Names, by \in {defaultOrtogonalAttrs, <<>>}, limit \in Limits :
          construct_KeepLatest(n, by, limit)
    \/ \E v \in Versions : call_KeepLatest(v)

SpecLatest == InitLatest /\ [][NextLatest]_vars

\* the rules built from the settings over a registry
NextBuild ==
    \E packages \in Settings : call_build_protection_rules(packages)

SpecBuild == InitLatest /\ [][NextBuild]_vars

\* the graphs of the queries: any edges within the bounds, their end
\* nodes and nodes without edges
Ends(E) == {e[1] : e \in E} \cup {e[2] : e \in E}

Graphs ==
    {g \in [edges : {E \in SUBSET (Pkgs \X Pkgs) : Cardinality(E) <= MaxEdges},
            nodes : SUBSET Pkgs] :
        /\ Ends(g.edges) \subseteq g.nodes
        /\ Cardinality(g.nodes) <= MaxNodes}

\* a graph and the registry it is rebuilt from: every node installed, with
\* its dependencies in its manifest; the graph is then queried
InitGraph ==
    /\ \E g \in Graphs :
          /\ nodes = g.nodes
          /\ edges = g.edges
          /\ manifests = [n \in g.nodes |-> [dependencies |-> depends_on(g.edges, n)]]
    /\ dirty = FALSE
    /\ files = nodes
    /\ cache = Pickled(nodes, edges)
    /\ last = [op |-> "graph", raised |-> "none"]

NextGraph ==
    /\ last.op = "graph"
    /\ \/ \E p \in Pkgs, R \in RuleSets, rec \in BOOLEAN :
             call_get_protecting_rules(p, R, rec)
       \/ \E namePat \in {"*", "xz"}, verPat \in {"*", "1", ""}, R \in RuleSets :
             call_get_matching_pkgs(namePat, verPat, R)
       \/ \E R \in RuleSets, confirm \in Confirmations :
             uninstall_packages("@gc", "*", R, confirm, <<>>)

SpecGraph == InitGraph /\ [][NextGraph]_vars

\* the packages of the registry's life
LifePkgs == {<<"xz", "1">>, <<"root", "1">>, <<"root", "2">>}

\* the life of a registry: installs, removals of single packages as the
\* deletion loop of uninstall_packages asks for them, and graphs rebuilt
\* from the manifests (--dep-recache)
NextLife ==
    \/ \E pkg \in LifePkgs, use \in {U \in SUBSET LifePkgs : Cardinality(U) <= MaxUse},
          ok \in BOOLEAN :
          install_package(pkg, use, TRUE, ok)
    \/ \E pkg \in LifePkgs, fsOk \in BOOLEAN, deps \in ListsOf(LifePkgs, MaxUse) :
          uninstall_package(pkg, fsOk, deps)
    \/ PkgGraph_init(TRUE)

SpecLife == Init /\ [][NextLife]_vars

\* the commands of lpkgm: install, remove, show and show --tree, over a
\* registry with its life
NextMain ==
    \/ NextLife
    \/ \E namePat \in {"@gc", "xz"}, R \in RuleSets, confirm \in {"auto", "no"} :
          uninstall_packages(namePat, "*", R, confirm, <<>>)
    \/ \E R \in RuleSets : show(R)
    \/ show_tree

SpecMain == Init /\ [][NextMain]_vars

(* ---- vocabulary of the properties ---- *)

\* x is listed in q, and y is listed later
Before(q, x, y) == \E i \in 1..Len(q) : \E j \in 1..Len(q) :
                      i < j /\ q[i] = x /\ q[j] = y

\* the transitive closure of the relation E
RECURSIVE TransitiveClosure(_)
TransitiveClosure(E) ==
    LET E2 == E \cup {<<p[1][1], p[2][2]>> :
                         p \in {x \in E \X E : x[1][2] = x[2][1]}}
    IN  IF E2 = E THEN E ELSE TransitiveClosure(E2)

\* no node depends, directly or not, on itself
Acyclic(E) == \A e \in TransitiveClosure(E) : e[1] # e[2]

\* a completed sort_for_removal call on the present graph
SortDone == last.op = "sort_for_removal" /\ last.raised = "none"

(* ---- sort_for_removal ---- *)

C2_DependentsRemovedFirst ==
    (SortDone /\ Acyclic(edges)) =>
        \A e \in subgraph(edges, last.pkgs) :
            Before(Flatten(last.tiers), e[1], e[2])

\* C9: when every node of S is in the graph, the concatenated tiers of
\* sort_for_removal(S) are a permutation of S: the call does not fail,
\* each node of S is listed exactly once and nothing else is listed.
C9_TiersArePermutation ==
    (last.op = "sort_for_removal" /\ last.pkgs \subseteq nodes) =>
        /\ last.raised = "none"
        /\ Len(Flatten(last.tiers)) = Cardinality(last.pkgs)
        /\ SeqToSet(Flatten(last.tiers)) = last.pkgs

\* a proper part of a component and a node of another component were sorted
C9_Witness ==
    /\ SortDone
    /\ Cardinality(last.pkgs) = 2
    /\ Len(last.tiers) = 2
    /\ edges # {}
    /\ \E n \in nodes \ last.pkgs : \E m \in last.pkgs : <<n, m>> \in edges

(* ---- protection queries ---- *)

\* the nodes for which some rule configured for the node's name is true
DirectlyProtected(N, protectionRules) ==
    {n \in N : \E i \in 1..Len(RulesOf(protectionRules, n[1])) :
                  RuleCall(RulesOf(protectionRules, n[1])[i], n[2])}

\* the directly protected nodes and everything one of them depends on, at
\* any depth
ProtectedClosure(N, E, protectionRules) ==
    LET direct == DirectlyProtected(N, protectionRules)
    IN  direct \cup {n \in N : \E d \in direct : <<d, n>> \in TransitiveClosure(E)}

\* C3: get_protected_pkgs returns exactly the directly protected nodes
\* together with every node reachable from one of them along depends-on
\* edges; it contains every key of get_protected_rules_by_pkg and is
\* closed under depends-on.
C3_ProtectedIsClosure ==
    last.op = "get_protected_pkgs" =>
        /\ last.result = ProtectedClosure(nodes, edges, last.rules)
        /\ DOMAIN get_protected_rules_by_pkg(nodes, last.rules) \subseteq last.result
        /\ \A e \in edges : e[1] \in last.result => e[2] \in last.result

\* a node is protected only through a dependent of a dependent
C3_Witness ==
    /\ last.op = "get_protected_pkgs"
    /\ \E a \in nodes : \E b \in nodes : \E c \in nodes :
          /\ Cardinality({a, b, c}) = 3
          /\ edges = {<<a, b>>, <<b, c>>}
          /\ DirectlyProtected(nodes, last.rules) = {a}
          /\ last.result = {a, b, c}

\* C10: get_unprotected_pkgs is the set of all nodes minus the protected
\* ones: disjoint from them, and covering every node together with them;
\* without a true rule every node is unprotected, and when every node is
\* protected the result is empty.
C10_UnprotectedIsComplement ==
    last.op = "get_unprotected_pkgs" =>
        LET prot == ProtectedClosure(nodes, edges, last.rules)
        IN  /\ last.result \cap prot = {}
            /\ last.result \cup prot = nodes
            /\ (DOMAIN last.rules = {} => last.result = nodes)
            /\ (prot = nodes => last.result = {})

\* some node is unprotected while another is protected through a dependent
C10_Witness ==
    /\ last.op = "get_unprotected_pkgs"
    /\ last.result # {}
    /\ \E n \in nodes \ last.result : n \notin DirectlyProtected(nodes, last.rules)

(* ---- get_protecting_rules ---- *)

\* C4: get_protecting_rules(pkg, version, recursive=True) returns, and its
\* result is non-empty exactly when the node directly matches a rule or
\* some transitive dependent of it directly matches a rule.
C4_TruthyIffProtectedDependent ==
    (last.op = "get_protecting_rules" /\ last.recursive) =>
        /\ last.raised = "none"
        /\ (last.result # <<>>) <=>
              \/ last.pkg \in DirectlyProtected({last.pkg}, last.rules)
              \/ \E d \in DirectlyProtected(nodes, last.rules) :
                    <<d, last.pkg>> \in TransitiveClosure(edges)

\* the equivalence of C4 where the recursion ends: on acyclic graphs
C4_OnAcyclicGraphs ==
    (last.op = "get_protecting_rules" /\ last.recursive /\ Acyclic(edges)) =>
        /\ last.raised = "none"
        /\ (last.result # <<>>) <=>
              \/ last.pkg \in DirectlyProtected({last.pkg}, last.rules)
              \/ \E d \in DirectlyProtected(nodes, last.rules) :
                    <<d, last.pkg>> \in TransitiveClosure(edges)

\* C8: get_protecting_rules(recursive=True) terminates on every finite
\* graph, a graph with a dependency cycle included.
C8_RecursionTerminates ==
    (last.op = "get_protecting_rules" /\ last.recursive) =>
        last.raised # "RecursionError"

(* ---- removal requests ---- *)

\* the outcome of the last command is that of a removal request that
\* built a queue
RemovalDone == last.op = "uninstall_packages" /\ last.queue # <<>>

\* some candidate of the queue has a non-empty
\* get_protecting_rules(recursive=True) under the rules of the request
ProtectionConflict(E, protectionRules, queue) ==
    \E i \in 1..Len(queue) :
        get_protecting_rules(E, protectionRules, queue[i], TRUE) # <<>>

\* C5: removal is all-or-nothing on protection conflicts: when
\* get_protecting_rules(recursive=True) is non-empty for any candidate of a
\* removal request, the request is aborted with an error in the
\* verification, before any filesystem entry, manifest, graph node or graph
\* edge is changed
C5_AbortedOnProtectionConflict ==
    [][ (/\ last'.op = "uninstall_packages"
         /\ last'.queue # <<>>
         /\ ProtectionConflict(edges, last'.rules, last'.queue))
        => /\ last'.raised # "none"
           /\ last'.phase = "verify"
           /\ UNCHANGED <<nodes, edges, manifests, files>> ]_vars

\* a request was aborted in the verification, a candidate of it being
\* protected through a package that depends on it
C5_Witness ==
    /\ RemovalDone
    /\ last.phase = "verify"
    /\ last.raised # "none"
    /\ \E i \in 1..Len(last.queue) :
         LET r == get_protecting_rules(edges, last.rules, last.queue[i], TRUE)
         IN  r # <<>> /\ r # RecursionError /\ r[3] = <<>> /\ r[4] # {}

\* an installed package that is not in the queue depends on a package of
\* the queue
OutsideDependent(E, queue) ==
    \E i \in 1..Len(queue) : dependency_of(E, queue[i]) \ SeqToSet(queue) # {}

\* C6: a removal request never deletes a package that another installed
\* package outside the removal queue depends on: the request is refused with
\* the error 'Other installed package depends on package(s) queued for
\* removal' and nothing is deleted
C6_RefusedWhenDependentOutsideQueue ==
    [][ (/\ last'.op = "uninstall_packages"
         /\ last'.queue # <<>>
         /\ OutsideDependent(edges, last'.queue))
        => /\ last'.raised = "RuntimeError"
           /\ last'.msg = OtherDepends
           /\ UNCHANGED <<nodes, edges, manifests, files>> ]_vars

\* C7: after a removal request that passed the verification and was
\* confirmed, the candidates have been processed in the order of the plan,
\* and every candidate whose filesystem entries are deleted has no manifest,
\* no node and no edge in the graph
C7_ConfirmedRequestRemovesCandidates ==
    (RemovalDone /\ last.phase \in {"delete", "done"})
    => /\ last.raised = "none"
       /\ last.processed = last.queue
       /\ \A i \in 1..Len(last.queue) :
            last.queue[i] \notin files
            => /\ last.queue[i] \notin DOMAIN manifests
               /\ last.queue[i] \notin nodes
               /\ \A e \in edges : last.queue[i] \notin {e[1], e[2]}

\* C11: when the filesystem entries of one queued package cannot be
\* deleted, that package keeps its manifest, its node and its edges, and
\* the other packages of the queue are still processed
C11_FsFailureKeepsManifestAndGoesOn ==
    (/\ RemovalDone
     /\ last.phase \in {"delete", "done"}
     /\ last.fsFail \cap SeqToSet(last.queue) # {})
    => /\ \A p \in last.fsFail \cap SeqToSet(last.queue) :
            /\ p \in DOMAIN manifests
            /\ p \in nodes
            /\ \A d \in manifests[p].dependencies : <<p, d>> \in edges
       /\ SeqToSet(last.queue) \ last.fsFail \subseteq SeqToSet(last.processed)

(* ---- removal requests with -k ---- *)

\* the installed versions a -k entry of the list names
KeptVersions(N, keep) ==
    {n \in N : \E i \in 1..Len(keep) :
        keep[i].name = n[1] /\ fnmatch(n[2], keep[i].ver)}

\* the configured rules with a 'manual' KeepVersion rule for every -k entry
RulesWithManual(protectionRules, keep) ==
    ManualKeepAsList([rules |-> protectionRules, bare |-> {},
                      raised |-> "none"], keep).rules

\* what a request with -k selects under the configured plus manual rules
SelectedWithManual ==
    IF last.gc
    THEN get_unprotected_pkgs(nodes, edges, RulesWithManual(last.rules, last.keep))
    ELSE get_matching_pkgs(nodes, last.pats[1], last.pats[2],
                           RulesWithManual(last.rules, last.keep))

\* C12: every -k entry name/versionGlob adds a 'manual' KeepVersion rule to
\* the rules of the request, for names with configured rules and for names
\* without: the request does not fail on the entry, the versions the entry
\* names are not queued, and the other candidates are selected against the
\* configured plus manual rules
C12_KeepEntriesProtect ==
    (last.op = "uninstall_packages" /\ last.keep # <<>>)
    => /\ last.raised \notin {"TypeError", "AttributeError"}
       /\ KeptVersions(nodes, last.keep) \cap SeqToSet(last.queue) = {}
       /\ (SelectedWithManual # {} /\ last.phase # "sort")
          => SeqToSet(last.queue) = SelectedWithManual

(* ---- the cache file ---- *)

MutatorOps == {"add", "add_pkg", "remove", "remove_mult", "remove_pkg"}

\* C13: when the PkgGraph context exits, the graph is written to the cache
\* file if and only if it is dirty; every completed add, add_pkg, remove,
\* remove_mult or remove_pkg and a rebuild from the manifests make it dirty,
\* a graph loaded from the cache is not dirty, and a graph that is not dirty
\* is the one the cache file holds
C13_WrittenIffDirty ==
    [][ /\ last'.op = "__exit__"
           => /\ last'.saved <=> dirty
              /\ cache' = IF dirty THEN Pickled(nodes, edges) ELSE cache
        /\ (last'.op \in MutatorOps /\ last'.raised = "none") => dirty'
        /\ last'.op = "__init__" => (dirty' <=> last'.rebuilt)
        /\ ~dirty' => cache' = Pickled(nodes', edges') ]_vars

\* a session that loaded a graph from the cache and exits without writing
C13_Witness ==
    /\ last.op = "__exit__"
    /\ ~last.saved
    /\ nodes # {}
    /\ cache = Pickled(nodes, edges)

(* ---- install ---- *)

ReportsFailure(outcome) == outcome.raised # "none" \/ outcome.ret = "False"

\* the request did not come to the deletion of a package
BeforeDeletion(outcome) == outcome.phase \notin {"delete", "done"}

\* C15: without auto-confirm, a removal request of a session that is not
\* interactive deletes nothing, leaves every manifest and the graph
\* unchanged, and reports failure
C15_NonInteractiveRefused ==
    [][ (last'.op = "uninstall_packages" /\ last'.confirm = "notty")
        => /\ BeforeDeletion(last')
           /\ UNCHANGED <<nodes, edges, manifests, files>>
           /\ ReportsFailure(last') ]_vars

\* C15, amended: as C15, but a garbage-collection request that finds no
\* candidate reports success
C15_NonInteractiveRefusedOrNothingToDo ==
    [][ (last'.op = "uninstall_packages" /\ last'.confirm = "notty")
        => /\ BeforeDeletion(last')
           /\ UNCHANGED <<nodes, edges, manifests, files>>
           /\ \/ ReportsFailure(last')
              \/ (last'.gc /\ last'.queue = <<>> /\ last'.ret = "True") ]_vars

\* a verified request was refused for want of a terminal
C15_Witness ==
    /\ RemovalDone
    /\ last.confirm = "notty"
    /\ last.phase = "confirm"
    /\ last.ret = "False"

(* ---- empty selections ---- *)

\* C16: a removal request whose candidate set is empty changes nothing; in
\* garbage-collection mode it reports success (True), for a name/version
\* pattern it reports failure (False)
C16_EmptySelection ==
    [][ last'.op = "uninstall_packages"
        => /\ (last'.gc /\ get_unprotected_pkgs(nodes, edges, last'.rules) = {})
              => /\ last'.raised = "none" /\ last'.ret = "True"
                 /\ last'.queue = <<>>
                 /\ UNCHANGED <<nodes, edges, dirty, manifests, files, cache>>
           /\ (~last'.gc /\ get_matching_pkgs(nodes, "*", "*", last'.rules) = {})
              => /\ last'.raised = "none" /\ last'.ret = "False"
                 /\ last'.queue = <<>>
           /\ (~last'.gc /\ last'.raised = "none" /\ last'.queue = <<>>)
              => /\ last'.ret = "False"
                 /\ UNCHANGED <<nodes, edges, dirty, manifests, files, cache>>
      ]_vars

\* a garbage collection found every installed package protected
C16_Witness ==
    /\ last.op = "uninstall_packages"
    /\ last.gc
    /\ nodes # {}
    /\ get_unprotected_pkgs(nodes, edges, last.rules) = {}
    /\ last.ret = "True"

(* ---- PkgGraph.remove ---- *)

\* C17: remove(pkg, dep) on an edge that exists removes exactly that edge
\* and no node or other edge; on an edge that does not exist it fails with
\* an error and leaves the nodes, the edges and the dirty flag unchanged
C17_RemoveExactlyTheEdge ==
    [][ last'.op = "remove"
        => IF <<last'.pkg1, last'.pkg2>> \in edges
           THEN /\ last'.raised = "none"
                /\ edges' = edges \ {<<last'.pkg1, last'.pkg2>>}
                /\ nodes' = nodes
           ELSE /\ last'.raised # "none"
                /\ UNCHANGED <<nodes, edges, dirty>> ]_vars

\* a remove of an edge the graph does not have failed on a clean graph
\* that has another edge
C17_Witness ==
    /\ last.op = "remove"
    /\ last.raised = "NetworkXError"
    /\ edges # {}
    /\ ~dirty
\* the pairs listed in the partitions of a result
Listed(result) ==
    UNION {{<<p, q>> : q \in 1..Len(result[p][2])} : p \in 1..Len(result)}

\* the partitions of a result: flavour and sorted list
Partitions(result) == {result[p] : p \in 1..Len(result)}

\* the orders of the entries of a list
Reorderings(q) ==
    {[i \in 1..Len(q) |-> q[f[i]]] : f \in {g \in [1..Len(q) -> 1..Len(q)] : Distinct(g)}}

\* C19: VersionsOrder partitions the input records by their flavour key,
\* every input record appearing in exactly one partition, and lists each
\* partition in ascending lexicographic order of the converted attribute
\* tuple (missing or null counting as 0), whatever the input order; 1.0.1
\* comes before 1.0.23 before 1.2.0, and with partitioning by buildConf
\* the buildConf=test record forms its own partition.
C19_PartitionedAndSorted ==
    last.op = "VersionsOrder" =>
      LET r      == last.result
          by     == last.ortogonalBy
          fl(x)  == canonic_version_tuple(by, x[1], x[2])[1]
          tup(x) == canonic_version_tuple(by, x[1], x[2])[2]
      IN  /\ \A i \in 1..Len(last.input) :
                Cardinality({pq \in Listed(r) :
                               r[pq[1]][2][pq[2]][2] = last.input[i]}) = 1
          /\ \A pq \in Listed(r) :
                /\ r[pq[1]][2][pq[2]][2] \in SeqToSet(last.input)
                /\ fl(r[pq[1]][2][pq[2]][2]) = r[pq[1]][1]
                /\ tup(r[pq[1]][2][pq[2]][2]) = r[pq[1]][2][pq[2]][1]
          /\ \A p1 \in 1..Len(r) : \A p2 \in 1..Len(r) :
                r[p1][1] = r[p2][1] => p1 = p2
          /\ \A p \in 1..Len(r) : \A q1 \in 1..Len(r[p][2]) : \A q2 \in 1..Len(r[p][2]) :
                q1 < q2 => LexLess(r[p][2][q1][1], r[p][2][q2][1])
          /\ \A q \in Reorderings(last.input) :
                Partitions(VersionsOrder_call(by, q)) = Partitions(r)
          /\ (SeqToSet(last.input) = {<<V_1_2_0_test, 1>>, <<V_1_0_23, 2>>, <<V_1_0_1, 3>>}
                => IF by = <<>>
                   THEN r = << << <<>>, << <<tup(<<V_1_0_1, 3>>), <<V_1_0_1, 3>> >>,
                                           <<tup(<<V_1_0_23, 2>>), <<V_1_0_23, 2>> >>,
                                           <<tup(<<V_1_2_0_test, 1>>), <<V_1_2_0_test, 1>> >> >> >> >>
                   ELSE Partitions(r) =
                          { << << <<"test">> >>,
                               << <<tup(<<V_1_2_0_test, 1>>), <<V_1_2_0_test, 1>> >> >> >>,
                            << <<Null>>,
                               << <<tup(<<V_1_0_1, 3>>), <<V_1_0_1, 3>> >>,
                                  <<tup(<<V_1_0_23, 2>>), <<V_1_0_23, 2>> >> >> >> })
\* the versions of the name in the registry a rule with the limit has to
\* protect: the last min(limit, size) of each flavour partition of the
\* version order
LatestOf(M, pkgName, ortogonalBy, limit) ==
    LET known == {p[2] : p \in {x \in DOMAIN M : x[1] = pkgName}}
        pair(v) == <<M[<<pkgName, v>>].version, M[<<pkgName, v>>].installedAt>>
        pairs == CHOOSE q \in [1..Cardinality(known) -> {pair(v) : v \in known}] :
                    Distinct(q)
        parts == VersionsOrder_call(ortogonalBy, pairs)
    IN  UNION {{LastN(parts[p][2], limit)[i][2][1].fullVersion
                  : i \in 1..Len(LastN(parts[p][2], limit))} : p \in 1..Len(parts)}

\* C18: a KeepLatest rule with limit N protects, within each flavour
\* partition of the versions known at its construction, exactly the last
\* min(N, partition size) versions of the version order and no other; the
\* rule called with a version not known at construction fails with an
\* error.
C18_KeepsLastOfEachFlavour ==
    /\ (last.op = "KeepLatest" /\ last.latestLimit >= 1)
         => /\ last.raised = "none"
            /\ \A v \in Versions :
                  <<last.pkgName, v>> \in DOMAIN manifests
                    => /\ KeepLatestProtectionRule_call(last.rule, v).raised = "none"
                       /\ KeepLatestProtectionRule_call(last.rule, v).ret
                            = (v \in LatestOf(manifests, last.pkgName,
                                              last.flavourFrom, last.latestLimit))
    /\ (last.op = "KeepLatest.__call__"
          /\ <<last.rule.pkgName, last.pkgVersion>> \notin DOMAIN manifests)
         => last.raised # "none"
\* the type names the rules are known by
KnownTypes == KeepAllTypes \cup KeepNoneTypes \cup {T_latest}

\* the descriptors configured in the settings
Configured(packages) ==
    UNION {IF "protection-rules" \in DOMAIN packages[i][2]
           THEN SeqToSet(packages[i][2]["protection-rules"]) ELSE {}
             : i \in 1..Len(packages)}

\* C20: building the protection rule set fails with a hard error, before
\* any rule set is returned or anything is mutated, whenever a configured
\* rule descriptor has a type that is not one of the known type names
\* (always, keep, system, keepall, keep_all, keep-all, never, none,
\* latest); the names are compared in lower case.
C20_UnknownTypeIsAnError ==
    [][ (/\ last'.op = "build_protection_rules"
         /\ \E d \in Configured(last'.packages) : lower(d.type) \notin KnownTypes)
        => /\ last'.raised # "none"
           /\ last'.ret = NoRules
           /\ UNCHANGED <<nodes, edges, dirty, registry>> ]_vars
(* ---- the mutators keep the graph well formed ---- *)

\* C29: after any sequence of add, add_pkg, remove, remove_mult and
\* remove_pkg calls both endpoints of every edge are nodes of the graph;
\* add creates the endpoints that are missing, and remove_pkg removes the
\* node together with every edge into or out of it and leaves all other
\* nodes and edges as they are.
C29_EdgesJoinNodes ==
    [][ /\ \A e \in edges' : e[1] \in nodes' /\ e[2] \in nodes'
        /\ last'.op = "add"
             => \E p1 \in Pkgs, p2 \in Pkgs :
                   /\ edges' = edges \cup {<<p1, p2>>}
                   /\ nodes' = nodes \cup {p1, p2}
        /\ (last'.op = "remove_pkg" /\ last'.raised = "none")
             => \E p \in nodes :
                   /\ nodes' = nodes \ {p}
                   /\ edges' = {e \in edges : e[1] # p /\ e[2] # p} ]_vars

\* a node was removed from a graph that keeps an edge and a node apart
\* from it
C29_Witness ==
    /\ last.op = "remove_pkg"
    /\ last.raised = "none"
    /\ edges # {}
    /\ Cardinality(nodes) = MaxNodes - 1
(* ---- the tiers of sort_for_removal ---- *)

\* the nodes joined to n by edges taken in either direction
ComponentOf(N, E, n) ==
    {n} \cup {m \in N : <<n, m>> \in
                TransitiveClosure(E \cup {<<e[2], e[1]>> : e \in E})}

\* C26: sort_for_removal(S) returns exactly one tier for each weakly
\* connected component of the full graph that holds a node of S, each tier
\* holding exactly the nodes of S in that component; nodes of different
\* components never share a tier, and both ends of an edge inside S are
\* in the same tier.
C26_OneTierPerComponent ==
    SortDone =>
      LET comps == {ComponentOf(nodes, edges, n) : n \in last.pkgs}
          tier(i) == SeqToSet(last.tiers[i])
      IN  /\ Len(last.tiers) = Cardinality(comps)
          /\ \A C \in comps :
                Cardinality({i \in 1..Len(last.tiers) : tier(i) = C \cap last.pkgs}) = 1
          /\ \A i \in 1..Len(last.tiers) :
                /\ Len(last.tiers[i]) = Cardinality(tier(i))
                /\ \A x \in tier(i) : \A y \in tier(i) :
                      ComponentOf(nodes, edges, x) = ComponentOf(nodes, edges, y)
          /\ \A e \in subgraph(edges, last.pkgs) :
                \E i \in 1..Len(last.tiers) : e[1] \in tier(i) /\ e[2] \in tier(i)

\* nodes of two components were sorted, two of them joined by an edge
C26_Witness ==
    /\ SortDone
    /\ Len(last.tiers) = 2
    /\ \E e \in subgraph(edges, last.pkgs) : e[1] # e[2]
(* ---- the record of get_protecting_rules ---- *)

\* C25: get_protecting_rules(pkg, version, recursive=False) never inspects
\* the edges of the graph: its result is non-empty exactly when some rule
\* configured for pkg is true for version, and is what it is on the graph
\* without any edge.
C25_NonRecursiveIgnoresEdges ==
    (last.op = "get_protecting_rules" /\ ~last.recursive) =>
        /\ last.raised = "none"
        /\ (last.result # <<>>) <=>
              (last.pkg \in DirectlyProtected({last.pkg}, last.rules))
        /\ last.result = get_protecting_rules({}, last.rules, last.pkg, FALSE)
        /\ last.result # <<>> => last.result[4] = {}

\* the node asked about has no true rule, and a dependent of it has one
C25_Witness ==
    /\ last.op = "get_protecting_rules"
    /\ ~last.recursive
    /\ last.result = <<>>
    /\ \E d \in dependency_of(edges, last.pkg) :
          d \in DirectlyProtected({d}, last.rules)
\* no empty record in the tree of a record
RECURSIVE NoEmptyRecord(_)
NoEmptyRecord(rec) ==
    /\ rec # <<>>
    /\ \A sub \in rec[4] : NoEmptyRecord(sub)

C30_MatchingAndNotDirectlyProtected ==
    [][ last'.op = "get_matching_pkgs"
        => /\ last'.result =
                {n \in nodes : /\ fnmatch(n[1], last'.namePat)
                               /\ fnmatch(n[2], last'.verPat)}
                \ DirectlyProtected(nodes, last'.rules)
           /\ UNCHANGED <<nodes, edges, dirty>> ]_vars

\* C30, amended: the same, an empty version pattern matching every
\* version.
C30_EmptyVersionPatternMatchesAll ==
    [][ last'.op = "get_matching_pkgs"
        => /\ last'.result =
                {n \in nodes : /\ fnmatch(n[1], last'.namePat)
                               /\ \/ last'.verPat = ""
                                  \/ fnmatch(n[2], last'.verPat)}
                \ DirectlyProtected(nodes, last'.rules)
           /\ UNCHANGED <<nodes, edges, dirty>> ]_vars

\* an empty version pattern selected a node that a protected node depends
\* on, and left out a node of a matching name that has a true rule
C30_Witness ==
    /\ last.op = "get_matching_pkgs"
    /\ last.verPat = ""
    /\ \E n \in last.result : \E d \in DirectlyProtected(nodes, last.rules) :
          <<d, n>> \in edges
    /\ \E m \in nodes \ last.result : fnmatch(m[1], last.namePat)
(* ---- garbage collection selects what the verification accepts ---- *)

\* C23: for every acyclic graph and rule set, a node is in
\* get_unprotected_pkgs exactly when get_protecting_rules(node,
\* recursive=True) is empty; hence a garbage-collection request on such a
\* graph never ends in its verification pass: no candidate of its queue
\* has a protecting rule.
C23_GcSelectionPassesVerification ==
    Acyclic(edges)
    => /\ \A R \in RuleSets : \A n \in nodes :
             n \in get_unprotected_pkgs(nodes, edges, R)
             <=> get_protecting_rules(edges, R, n, TRUE) = <<>>
       /\ (last.op = "uninstall_packages" /\ last.gc)
          => /\ last.phase # "verify"
             /\ ~ ProtectionConflict(edges, last.rules, last.queue)

\* a garbage-collection request went past the verification with a
\* non-empty queue, having left out a package that has no true rule of its
\* own but is needed by a protected one
C23_Witness ==
    /\ Acyclic(edges)
    /\ last.op = "uninstall_packages" /\ last.gc
    /\ last.phase \in {"confirm", "delete", "done"}
    /\ last.queue # <<>>
    /\ \E p \in nodes \ SeqToSet(last.queue) :
          /\ p \notin DirectlyProtected(nodes, last.rules)
          /\ get_protecting_rules(edges, last.rules, p, TRUE) # <<>>
(* ---- uninstall_package ---- *)

\* C28: when the graph update of uninstall_package fails because a
\* dependency edge listed in the manifest is missing from the graph, the
\* failure is swallowed: the manifest is deleted, the call returns True,
\* the edges removed before the failure stay removed (and nothing else is
\* removed), and the node of the package remains in the graph.
C28_GraphFailureSwallowed ==
    [][ (/\ last'.op = "uninstall_package"
         /\ last'.pkg \in DOMAIN manifests
         /\ files' # files
         /\ \E d \in manifests[last'.pkg].dependencies :
               <<last'.pkg, d>> \notin edges)
        => /\ last'.raised = "none" /\ last'.ret = TRUE
           /\ last'.pkg \notin DOMAIN manifests'
           /\ nodes' = nodes
           /\ edges' \subseteq edges
           /\ edges \ edges' \subseteq
                 {<<last'.pkg, d>> : d \in manifests[last'.pkg].dependencies}
           /\ dirty' = (dirty \/ edges' # edges) ]_vars

\* a package listing two dependencies was uninstalled while the edge to
\* one of them was missing: the other edge was removed, the node stayed
C28_Witness ==
    /\ last.op = "uninstall_package" /\ last.ret = TRUE /\ last.failed
    /\ last.pkg \in nodes
    /\ last.pkg \notin DOMAIN manifests
    /\ last.removed # {}
(* ---- the graph and the manifests ---- *)

\* the graph in memory is the graph the manifests give
AsRebuilt ==
    /\ nodes = build_dep_graph(manifests).nodes
    /\ edges = build_dep_graph(manifests).edges

Closed == \A p \in DOMAIN manifests : manifests[p].dependencies \subseteq DOMAIN manifests

\* the step uninstalled a package that an installed package lists
NeededRemoved ==
    /\ last'.op = "uninstall_package" /\ last'.ret = TRUE
    /\ \E p \in DOMAIN manifests : last'.pkg \in manifests[p].dependencies

\* what C22 and C24 say holds as long as no package is uninstalled that
\* an installed package lists as its dependency
KeptWithoutNeededRemovals ==
    [][ (AsRebuilt /\ Closed /\ Acyclic(edges) /\ ~ NeededRemoved)
        => (AsRebuilt /\ Closed /\ Acyclic(edges))' ]_vars
(* ---- the exit code ---- *)

\* the procedures the commands run
Commands == {"install_package", "uninstall_packages", "show", "show_tree"}

\* the command did what it was asked for: no exception, and no failure
\* reported by the procedure
Succeeded ==
    /\ last.raised = "none"
    /\ last.op = "install_package" => last.ret = TRUE
    /\ last.op = "uninstall_packages" => last.ret = "True"

\* C21: the process exits with code 0 when the requested command
\* (install, remove, show, show --tree) succeeds and with code 1 when any
\* failure occurs during it.
C21_ExitCode ==
    last.op \in Commands => main(last) = (IF Succeeded THEN 0 ELSE 1)

\* the same, show --tree left aside
ExitCodeButForTree ==
    last.op \in Commands \ {"show_tree"}
    => main(last) = (IF Succeeded THEN 0 ELSE 1)

====
